---- MODULE Spec2Model ----
(***************************************************************************)
(* Key-value store with a transaction log (main.go) and the relational     *)
(* transaction logger (db.go).                                             *)
(*                                                                         *)
(* Goroutines: main (process 0: initializeTransactionLog, then the HTTP    *)
(* server), the reader goroutine started by ReadEvents, the writer         *)
(* goroutine started by Run, and one goroutine per request handler.        *)
(* Persistent state: the transactions table and its BIGSERIAL sequence.    *)
(***************************************************************************)
EXTENDS Integers, Sequences, FiniteSets, TLC

\* ---------------------------------------------------------------- bounds
NumHandlers == 2
MaxOps == 3
MaxFails == 2
MaxLives == 2
LiveOps == 2
BurstOps == 18
MaxRows == 3

\* ------------------------------------------------------ program constants
QueueCap == 16
ErrCap == 1
EventPut == 0
EventDelete == 1

Keys == {"a"}
Values == {"1", "2"}
Nil == "nil"
NoOne == -1
Main == 0
Handlers == 1..NumHandlers
Procs == {Main} \cup Handlers
EmptyMap == [k \in {} |-> ""]

VARIABLES
    table,      \* rows of the transactions table, in insertion order
    dbSeq,      \* last value handed out by the BIGSERIAL sequence
    life,       \* number of the current process lifetime
    m,          \* store.m
    lockW,      \* goroutine holding store's write lock, or NoOne
    lockR,      \* goroutines holding store's read lock
    running,    \* l.events / l.errors have been made by Run (non-nil)
    events,     \* contents of the l.events channel
    errors,     \* contents of the l.errors channel
    pc,         \* position of main and of every handler goroutine
    req,        \* the event the goroutine's Put/Delete is about (Get: its key)
    got,        \* last result (value, error) of Put, Delete or Get per handler
    e, ok, err, \* locals of initializeTransactionLog
    rpc,        \* position of the ReadEvents goroutine
    cursor,     \* rows the reader's result set has advanced past
    re,         \* the reader's local e
    outError,   \* contents of the outError channel
    errClosed,  \* outError closed
    evtClosed,  \* outEvent closed
    wpc,        \* position of the writer goroutine
    we,         \* the writer's loop variable e
    nOps,       \* requests started so far (all lifetimes)
    nFails,     \* failed appends so far (all lifetimes)
    sent,       \* events in the order they entered l.events, this lifetime
    delivered,  \* events received from outEvent, this lifetime
    readErr,    \* errors the reader put on outError, this lifetime
    overlap,    \* two requests were in progress at the same time
    base,       \* number of rows persisted before this lifetime began
    prevM,      \* store.m when the previous lifetime ended
    prevClean   \* previous lifetime ended drained, failure free, sequential

vars == <<table, dbSeq, life, m, lockW, lockR, running, events, errors, pc, req,
          got, e, ok, err, rpc, cursor, re, outError, errClosed, evtClosed, wpc,
          we, nOps, nFails, sent, delivered, readErr, overlap, base, prevM, prevClean>>

storeVars == <<m, lockW, lockR>>
loggerVars == <<running, events, errors, wpc, we>>
mainVars == <<e, ok, err>>
readerVars == <<rpc, cursor, re, outError, errClosed, evtClosed>>
dbVars == <<table, dbSeq>>
ghostVars == <<nOps, nFails, sent, delivered, readErr, overlap, base, prevM, prevClean>>

\* ------------------------------------------------------------ Event model
\* Sequence, EventType, Key, Value are the fields of Event; op and by record the
\* request that made the event and the goroutine that submitted it.
ZeroEvent ==
    [Sequence |-> 0, EventType |-> 0, Key |-> "", Value |-> "", op |-> 0, by |-> 0]

PutEvent(key, value, op, by) ==
    [Sequence |-> 0, EventType |-> EventPut, Key |-> key, Value |-> value,
     op |-> op, by |-> by]

DeleteEvent(key, op, by) ==
    [Sequence |-> 0, EventType |-> EventDelete, Key |-> key, Value |-> "",
     op |-> op, by |-> by]

\* ------------------------------------------------------------ store map
MapPut(map, key, value) ==
    [k \in DOMAIN map \cup {key} |-> IF k = key THEN value ELSE map[k]]

MapDelete(map, key) == [k \in DOMAIN map \ {key} |-> map[k]]

MapApply(map, ev) ==
    IF ev.EventType = EventPut THEN MapPut(map, ev.Key, ev.Value)
    ELSE IF ev.EventType = EventDelete THEN MapDelete(map, ev.Key)
    ELSE map

RECURSIVE MapApplyAll(_, _)
MapApplyAll(map, evs) ==
    IF evs = <<>> THEN map ELSE MapApplyAll(MapApply(map, Head(evs)), Tail(evs))

\* ------------------------------------------------------------ the table
\* Mutant: the event's own Sequence field is stored instead of the default.
InsertRowClientSequence(tbl, seq, ev) ==
    Append(tbl, [Sequence |-> ev.Sequence, EventType |-> ev.EventType,
                 Key |-> ev.Key, Value |-> ev.Value, op |-> ev.op, by |-> ev.by])

\* INSERT INTO transactions (event_type, key, value): the sequence column is
\* filled by the BIGSERIAL default.
InsertRow(tbl, seq, ev) ==
    Append(tbl, [Sequence |-> seq + 1, EventType |-> ev.EventType,
                 Key |-> ev.Key, Value |-> ev.Value, op |-> ev.op, by |-> ev.by])

\* Mutant: the query has no ORDER BY; the rows come in their stored order.
Unsorted(tbl) == tbl

\* SELECT ... ORDER BY sequence: the rows of the result set, in its order.
RECURSIVE SortBySequence(_)
SortBySequence(tbl) ==
    IF tbl = <<>> THEN <<>>
    ELSE LET lo == CHOOSE i \in 1..Len(tbl) :
                       \A j \in 1..Len(tbl) : tbl[i].Sequence <= tbl[j].Sequence
         IN  <<tbl[lo]>> \o SortBySequence(SubSeq(tbl, 1, lo - 1) \o SubSeq(tbl, lo + 1, Len(tbl)))

Rows == SortBySequence(table)

\* --------------------------------------------------------------- Init
Init ==
    /\ table = <<>>
    /\ dbSeq = 0
    /\ life = 1
    /\ m = EmptyMap
    /\ lockW = NoOne
    /\ lockR = {}
    /\ running = FALSE
    /\ events = <<>>
    /\ errors = <<>>
    /\ pc = [p \in Procs |-> IF p = Main THEN "new" ELSE "idle"]
    /\ req = [p \in Procs |-> ZeroEvent]
    /\ got = [h \in Handlers |-> <<"", Nil>>]
    /\ e = ZeroEvent
    /\ ok = TRUE
    /\ err = Nil
    /\ rpc = "none"
    /\ cursor = 0
    /\ re = ZeroEvent
    /\ outError = <<>>
    /\ errClosed = FALSE
    /\ evtClosed = FALSE
    /\ wpc = "none"
    /\ we = ZeroEvent
    /\ nOps = 0
    /\ nFails = 0
    /\ sent = <<>>
    /\ delivered = <<>>
    /\ readErr = 0
    /\ overlap = FALSE
    /\ base = 0
    /\ prevM = EmptyMap
    /\ prevClean = FALSE

Alive == pc[Main] # "panic"

\* Mutant: a writer takes the lock while readers still hold it.
LockOverReaders(p) ==
    /\ pc[p] = "Lock"
    /\ Alive
    /\ lockW = NoOne
    /\ lockW' = p
    /\ pc' = [pc EXCEPT ![p] = "mutate"]
    /\ UNCHANGED <<m, lockR, req, got>>
    /\ UNCHANGED <<loggerVars, mainVars, readerVars, dbVars, ghostVars, life>>

\* ------------------------------------------------- store: Put / Delete / Get
\* store.Lock() of Put and Delete.
Lock(p) ==
    /\ pc[p] = "Lock"
    /\ Alive
    /\ lockW = NoOne
    /\ lockR = {}
    /\ lockW' = p
    /\ pc' = [pc EXCEPT ![p] = "mutate"]
    /\ UNCHANGED <<m, lockR, req, got>>
    /\ UNCHANGED <<loggerVars, mainVars, readerVars, dbVars, ghostVars, life>>

\* store.m[key] = value / delete(store.m, key), then store.Unlock().
Mutate(p) ==
    /\ pc[p] = "mutate"
    /\ Alive
    /\ lockW = p
    /\ m' = MapApply(m, req[p])
    /\ lockW' = NoOne
    /\ pc' = [pc EXCEPT ![p] = "send"]
    /\ UNCHANGED <<lockR, req, got>>
    /\ UNCHANGED <<loggerVars, mainVars, readerVars, dbVars, ghostVars, life>>

\* Mutant: the queue is taken to be unbounded.
CanSendUnbounded(isMade, queue) == isMade

\* A send on l.events can proceed: the channel exists and has room.
\* (A send on a nil channel blocks forever.)
CanSend(isMade, queue) == isMade /\ Len(queue) < QueueCap

\* The loop condition of initializeTransactionLog: "for ok && err == nil".
LoopPc(isOk, error) == IF isOk /\ error = Nil THEN "select" ELSE "Run"

\* logger.WritePut / logger.WriteDelete: l.events <- Event{...}; then Put or
\* Delete returns nil to its caller (the replay loop, or a handler).
WriteEvent(p) ==
    /\ pc[p] = "send"
    /\ Alive
    /\ CanSend(running, events)
    /\ events' = Append(events, req[p])
    /\ sent' = Append(sent, req[p])
    /\ IF p = Main
       THEN /\ err' = Nil
            /\ pc' = [pc EXCEPT ![p] = LoopPc(ok, Nil)]
            /\ got' = got
       ELSE /\ err' = err
            /\ pc' = [pc EXCEPT ![p] = "idle"]
            /\ got' = [got EXCEPT ![p] = <<"", Nil>>]
    /\ UNCHANGED <<running, errors, wpc, we, e, ok, req>>
    /\ UNCHANGED <<storeVars, readerVars, dbVars, life>>
    /\ UNCHANGED <<nOps, nFails, delivered, readErr, overlap, base, prevM, prevClean>>

\* store.RLock() of Get (a reader waits while a writer holds the lock).
RLock(h) ==
    /\ pc[h] = "RLock"
    /\ Alive
    /\ lockW = NoOne
    /\ lockR' = lockR \cup {h}
    /\ pc' = [pc EXCEPT ![h] = "read"]
    /\ UNCHANGED <<m, lockW, req, got>>
    /\ UNCHANGED <<loggerVars, mainVars, readerVars, dbVars, ghostVars, life>>

\* Mutant: Get without the "ok" test (a missing key reads as "").
LookupNoTest(map, key) ==
    IF key \in DOMAIN map THEN <<map[key], Nil>> ELSE <<"", Nil>>

\* value, ok := store.m[key]; store.RUnlock(); the result of Get.
Lookup(map, key) ==
    IF key \in DOMAIN map THEN <<map[key], Nil>> ELSE <<"", "no such key">>

Read(h) ==
    /\ pc[h] = "read"
    /\ Alive
    /\ h \in lockR
    /\ got' = [got EXCEPT ![h] = Lookup(m, req[h].Key)]
    /\ lockR' = lockR \ {h}
    /\ pc' = [pc EXCEPT ![h] = "idle"]
    /\ UNCHANGED <<m, lockW, req>>
    /\ UNCHANGED <<loggerVars, mainVars, readerVars, dbVars, ghostVars, life>>

\* ------------------------------------------------------ request handlers
Busy(h) == pc[h] # "idle"

StartRequest(h, ev, first, cap) ==
    /\ pc[Main] = "serving"
    /\ pc[h] = "idle"
    /\ nOps < cap
    /\ nOps' = nOps + 1
    /\ req' = [req EXCEPT ![h] = ev]
    /\ pc' = [pc EXCEPT ![h] = first]
    /\ overlap' = (overlap \/ \E o \in Handlers \ {h} : Busy(o))
    /\ UNCHANGED <<got>>
    /\ UNCHANGED <<storeVars, loggerVars, mainVars, readerVars, dbVars, life>>
    /\ UNCHANGED <<nFails, sent, delivered, readErr, base, prevM, prevClean>>

\* keyValuePutHandler: Put(key, string(value)).
HandlePut(h, key, value, cap) ==
    StartRequest(h, PutEvent(key, value, nOps + 1, h), "Lock", cap)

\* keyValueDeleteHandler: Delete(key).
HandleDelete(h, key, cap) ==
    StartRequest(h, DeleteEvent(key, nOps + 1, h), "Lock", cap)

\* keyValueGetHandler: Get(key).
HandleGet(h, key, cap) ==
    StartRequest(h, [ZeroEvent EXCEPT !.Key = key], "RLock", cap)


\* ------------------------------------------------ ReadEvents goroutine
\* rows, err := l.db.Query(query); on an error: outError <- err; return.
Query ==
    /\ rpc = "query"
    /\ Alive
    /\ \E fail \in BOOLEAN :
         IF fail
         THEN /\ outError' = Append(outError, "sql query error")
              /\ readErr' = readErr + 1
              /\ rpc' = "closeError"
         ELSE /\ rpc' = "next"
              /\ UNCHANGED <<outError, readErr>>
    /\ cursor' = 0
    /\ UNCHANGED <<re, errClosed, evtClosed>>
    /\ UNCHANGED <<storeVars, loggerVars, mainVars, dbVars, life, pc, req, got>>
    /\ UNCHANGED <<nOps, nFails, sent, delivered, overlap, base, prevM, prevClean>>

\* Mutant: a failed scan is reported but the loop goes on with the next row.
RowsNextNoReturn ==
    /\ rpc = "next"
    /\ Alive
    /\ IF cursor < Len(Rows)
       THEN \E fail \in BOOLEAN :
              IF fail
              THEN /\ outError' = IF outError = <<>> THEN <<"error reading row">> ELSE outError
                   /\ readErr' = readErr + 1
                   /\ cursor' = cursor + 1
                   /\ rpc' = "next"
                   /\ UNCHANGED re
              ELSE /\ re' = Rows[cursor + 1]
                   /\ cursor' = cursor + 1
                   /\ rpc' = "send"
                   /\ UNCHANGED <<outError, readErr>>
       ELSE /\ rpc' = "rowsErr"
            /\ UNCHANGED <<re, cursor, outError, readErr>>
    /\ UNCHANGED <<errClosed, evtClosed>>
    /\ UNCHANGED <<storeVars, loggerVars, mainVars, dbVars, life, pc, req, got>>
    /\ UNCHANGED <<nOps, nFails, sent, delivered, overlap, base, prevM, prevClean>>

\* rows.Next() and rows.Scan(...): the next row is made ready to be sent, or
\* the scan fails (outError <- err; return), or the rows are exhausted.
RowsNext ==
    /\ rpc = "next"
    /\ Alive
    /\ IF cursor < Len(Rows)
       THEN \E fail \in BOOLEAN :
              IF fail
              THEN /\ outError' = Append(outError, "error reading row")
                   /\ readErr' = readErr + 1
                   /\ rpc' = "closeError"
                   /\ UNCHANGED <<re, cursor>>
              ELSE /\ re' = Rows[cursor + 1]
                   /\ cursor' = cursor + 1
                   /\ rpc' = "send"
                   /\ UNCHANGED <<outError, readErr>>
       ELSE /\ rpc' = "rowsErr"
            /\ UNCHANGED <<re, cursor, outError, readErr>>
    /\ UNCHANGED <<errClosed, evtClosed>>
    /\ UNCHANGED <<storeVars, loggerVars, mainVars, dbVars, life, pc, req, got>>
    /\ UNCHANGED <<nOps, nFails, sent, delivered, overlap, base, prevM, prevClean>>

\* err = rows.Err(); if err != nil { outError <- ... }.
RowsErr ==
    /\ rpc = "rowsErr"
    /\ Alive
    /\ \E fail \in BOOLEAN :
         IF fail
         THEN /\ outError' = Append(outError, "transaction log read failure")
              /\ readErr' = readErr + 1
         ELSE UNCHANGED <<outError, readErr>>
    /\ rpc' = "closeError"
    /\ UNCHANGED <<re, cursor, errClosed, evtClosed>>
    /\ UNCHANGED <<storeVars, loggerVars, mainVars, dbVars, life, pc, req, got>>
    /\ UNCHANGED <<nOps, nFails, sent, delivered, overlap, base, prevM, prevClean>>

\* The deferred calls run last in, first out: close(outError) comes first.
CloseOutError ==
    /\ rpc = "closeError"
    /\ Alive
    /\ errClosed' = TRUE
    /\ rpc' = "closeEvent"
    /\ UNCHANGED <<re, cursor, outError, evtClosed>>
    /\ UNCHANGED <<storeVars, loggerVars, mainVars, dbVars, ghostVars, life, pc, req, got>>

\* ... and close(outEvent) second; the goroutine ends.
CloseOutEvent ==
    /\ rpc = "closeEvent"
    /\ Alive
    /\ evtClosed' = TRUE
    /\ rpc' = "done"
    /\ UNCHANGED <<re, cursor, outError, errClosed>>
    /\ UNCHANGED <<storeVars, loggerVars, mainVars, dbVars, ghostVars, life, pc, req, got>>

\* ------------------------------------------- main: initializeTransactionLog
\* NewPostgresTransactionLogger: open, ping, verify or create the table; any
\* failure is returned and main panics. (createTable's column list ends with
\* a comma, so on a database without the table the constructor fails.)
NewLogger ==
    /\ pc[Main] = "new"
    /\ \E fail \in BOOLEAN :
         pc' = [pc EXCEPT ![Main] = IF fail THEN "panic" ELSE "ReadEvents"]
    /\ UNCHANGED <<req, got>>
    /\ UNCHANGED <<storeVars, loggerVars, mainVars, readerVars, dbVars, ghostVars, life>>

\* events, errors := logger.ReadEvents(); e, ok := Event{}, true.
\* ReadEvents makes the two channels and starts the reader goroutine.
ReadEvents ==
    /\ pc[Main] = "ReadEvents"
    /\ rpc' = "query"
    /\ outError' = <<>>
    /\ errClosed' = FALSE
    /\ evtClosed' = FALSE
    /\ e' = ZeroEvent
    /\ ok' = TRUE
    /\ pc' = [pc EXCEPT ![Main] = LoopPc(TRUE, err)]
    /\ UNCHANGED <<err, re, cursor, req, got>>
    /\ UNCHANGED <<storeVars, loggerVars, dbVars, ghostVars, life>>

\* case err, ok = <-errors: a buffered error, or nil and false once the
\* channel is closed and empty.
SelectErrors ==
    /\ pc[Main] = "select"
    /\ \/ outError # <<>>
       \/ errClosed
    /\ IF outError # <<>>
       THEN /\ err' = Head(outError)
            /\ ok' = TRUE
            /\ outError' = Tail(outError)
       ELSE /\ err' = Nil
            /\ ok' = FALSE
            /\ UNCHANGED outError
    /\ pc' = [pc EXCEPT ![Main] = LoopPc(ok', err')]
    /\ UNCHANGED <<e, rpc, cursor, re, errClosed, evtClosed, req, got>>
    /\ UNCHANGED <<storeVars, loggerVars, dbVars, ghostVars, life>>

\* The switch on e.EventType: the call the loop body makes for event ev, as
\* <<position, request>>; no case matches any other event type.
Switch(ev, isOk, error) ==
    IF ev.EventType = EventDelete THEN <<"Lock", DeleteEvent(ev.Key, 0, Main)>>
    ELSE IF ev.EventType = EventPut THEN <<"Lock", PutEvent(ev.Key, ev.Value, 0, Main)>>
    ELSE <<LoopPc(isOk, error), ZeroEvent>>

\* case e, ok = <-events: the event the reader is sending on the unbuffered
\* outEvent (the reader then goes on to rows.Next()), or the zero Event and
\* false once the channel is closed. With applyIt the loop body's switch on
\* e.EventType follows; without it the event is only received.
ReceiveEvent(applyIt) ==
    /\ pc[Main] = "select"
    /\ \/ rpc = "send"
       \/ evtClosed
    /\ IF rpc = "send"
       THEN /\ e' = re
            /\ ok' = TRUE
            /\ rpc' = "next"
            /\ delivered' = Append(delivered, re)
       ELSE /\ e' = ZeroEvent
            /\ ok' = FALSE
            /\ UNCHANGED <<rpc, delivered>>
    /\ IF applyIt
       THEN /\ pc' = [pc EXCEPT ![Main] = Switch(e', ok', err)[1]]
            /\ req' = [req EXCEPT ![Main] = Switch(e', ok', err)[2]]
       ELSE /\ pc' = [pc EXCEPT ![Main] = LoopPc(ok', err)]
            /\ UNCHANGED req
    /\ UNCHANGED <<err, cursor, re, outError, errClosed, evtClosed, got>>
    /\ UNCHANGED <<storeVars, loggerVars, dbVars, life>>
    /\ UNCHANGED <<nOps, nFails, sent, readErr, overlap, base, prevM, prevClean>>

SelectEvents == ReceiveEvent(TRUE)

\* logger.Run(): make the two channels, start the writer goroutine.
Run ==
    /\ pc[Main] = "Run"
    /\ running' = TRUE
    /\ events' = <<>>
    /\ errors' = <<>>
    /\ wpc' = "range"
    /\ pc' = [pc EXCEPT ![Main] = "return"]
    /\ UNCHANGED <<we, req, got>>
    /\ UNCHANGED <<storeVars, mainVars, readerVars, dbVars, ghostVars, life>>

\* Mutant: initializeTransactionLog starts the writer a second time.
ReturnRunsAgain ==
    /\ pc[Main] = "return"
    /\ pc' = [pc EXCEPT ![Main] = IF err = Nil THEN "Run" ELSE "panic"]
    /\ UNCHANGED <<req, got>>
    /\ UNCHANGED <<storeVars, loggerVars, mainVars, readerVars, dbVars, ghostVars, life>>

\* return err; main panics on an error and otherwise serves requests.
Return ==
    /\ pc[Main] = "return"
    /\ pc' = [pc EXCEPT ![Main] = IF err = Nil THEN "serving" ELSE "panic"]
    /\ UNCHANGED <<req, got>>
    /\ UNCHANGED <<storeVars, loggerVars, mainVars, readerVars, dbVars, ghostVars, life>>

\* ------------------------------------------------------ writer goroutine
\* Mutant: the newest queued event is taken first.
DequeueNewest(queue) == <<queue[Len(queue)], SubSeq(queue, 1, Len(queue) - 1)>>

\* for e := range events: take the oldest queued event.
Dequeue(queue) == <<Head(queue), Tail(queue)>>

Take ==
    /\ wpc = "range"
    /\ Alive
    /\ events # <<>>
    /\ we' = Dequeue(events)[1]
    /\ events' = Dequeue(events)[2]
    /\ wpc' = "exec"
    /\ UNCHANGED <<running, errors, pc, req, got>>
    /\ UNCHANGED <<storeVars, mainVars, readerVars, dbVars, ghostVars, life>>

\* Mutant: a failed append undoes the event's effect on the store.
ExecRollback ==
    /\ wpc = "exec"
    /\ Alive
    /\ \/ /\ table' = InsertRow(table, dbSeq, we)
          /\ dbSeq' = dbSeq + 1
          /\ wpc' = "range"
          /\ UNCHANGED <<nFails, m>>
       \/ /\ nFails < MaxFails
          /\ \E used \in 0..1 : dbSeq' = dbSeq + used
          /\ nFails' = nFails + 1
          /\ wpc' = "sendErr"
          /\ m' = MapDelete(m, we.Key)
          /\ UNCHANGED table
    /\ UNCHANGED <<running, events, errors, we, pc, req, got>>
    /\ UNCHANGED <<lockW, lockR, mainVars, readerVars, life>>
    /\ UNCHANGED <<nOps, sent, delivered, readErr, overlap, base, prevM, prevClean>>

\* _, err := l.db.Exec(query, e.EventType, e.Key, e.Value): the row is
\* inserted, or the statement fails (a failed INSERT may or may not have
\* consumed a value of the sequence).
Exec ==
    /\ wpc = "exec"
    /\ Alive
    /\ \/ /\ table' = InsertRow(table, dbSeq, we)
          /\ dbSeq' = dbSeq + 1
          /\ wpc' = "range"
          /\ UNCHANGED nFails
       \/ /\ nFails < MaxFails
          /\ \E used \in 0..1 : dbSeq' = dbSeq + used
          /\ nFails' = nFails + 1
          /\ wpc' = "sendErr"
          /\ UNCHANGED table
    /\ UNCHANGED <<running, events, errors, we, pc, req, got>>
    /\ UNCHANGED <<storeVars, mainVars, readerVars, life>>
    /\ UNCHANGED <<nOps, sent, delivered, readErr, overlap, base, prevM, prevClean>>

\* errors <- err: blocks while the channel's buffer is full.
CanReport(queue) == Len(queue) < ErrCap

SendErr ==
    /\ wpc = "sendErr"
    /\ Alive
    /\ CanReport(errors)
    /\ errors' = Append(errors, "exec error")
    /\ wpc' = "range"
    /\ UNCHANGED <<running, events, we, pc, req, got>>
    /\ UNCHANGED <<storeVars, mainVars, readerVars, dbVars, ghostVars, life>>

\* ------------------------------------------------------ process lifetime
\* Every request has returned, the writer has appended all that was queued.
Drained ==
    /\ \A h \in Handlers : pc[h] = "idle"
    /\ events = <<>>
    /\ wpc \in {"none", "range"}

\* The process ends (exit, kill or panic) and main() starts again: all memory
\* is lost, the table and its sequence stay.
Restart ==
    /\ life < MaxLives
    /\ life' = life + 1
    /\ base' = Len(table)
    /\ prevM' = m
    /\ prevClean' = (Drained /\ nFails = 0 /\ ~overlap /\ pc[Main] = "serving")
    /\ m' = EmptyMap
    /\ lockW' = NoOne
    /\ lockR' = {}
    /\ running' = FALSE
    /\ events' = <<>>
    /\ errors' = <<>>
    /\ pc' = [p \in Procs |-> IF p = Main THEN "new" ELSE "idle"]
    /\ req' = [p \in Procs |-> ZeroEvent]
    /\ got' = [h \in Handlers |-> <<"", Nil>>]
    /\ e' = ZeroEvent
    /\ ok' = TRUE
    /\ err' = Nil
    /\ rpc' = "none"
    /\ cursor' = 0
    /\ re' = ZeroEvent
    /\ outError' = <<>>
    /\ errClosed' = FALSE
    /\ evtClosed' = FALSE
    /\ wpc' = "none"
    /\ we' = ZeroEvent
    /\ sent' = <<>>
    /\ delivered' = <<>>
    /\ readErr' = 0
    /\ overlap' = FALSE
    /\ UNCHANGED <<dbVars, nOps, nFails>>

\* ------------------------------------------------------- specification
\* Every step of the program over its lifetimes, with one client (handler 1)
\* making Put and Delete requests once main serves.
ProgNext ==
    \/ NewLogger
    \/ ReadEvents
    \/ SelectErrors
    \/ SelectEvents
    \/ Run
    \/ Return
    \/ Query
    \/ RowsNext
    \/ RowsErr
    \/ CloseOutError
    \/ CloseOutEvent
    \/ \E p \in {Main, 1} : Lock(p)
    \/ \E p \in {Main, 1} : Mutate(p)
    \/ \E p \in {Main, 1} : WriteEvent(p)
    \/ \E k \in Keys, v \in Values : HandlePut(1, k, v, MaxOps)
    \/ \E k \in Keys : HandleDelete(1, k, MaxOps)
    \/ Take
    \/ Exec
    \/ SendErr

Next ==
    \/ ProgNext
    \/ Restart

Spec == Init /\ [][Next]_vars


\* ------------------------------------------------ concurrent handlers
\* The state main() is in once it serves requests over an empty log: replay
\* found no rows, Run has started the writer.
InitLive ==
    /\ table = <<>>
    /\ dbSeq = 0
    /\ life = 1
    /\ m = EmptyMap
    /\ lockW = NoOne
    /\ lockR = {}
    /\ running = TRUE
    /\ events = <<>>
    /\ errors = <<>>
    /\ pc = [p \in Procs |-> IF p = Main THEN "serving" ELSE "idle"]
    /\ req = [p \in Procs |-> ZeroEvent]
    /\ got = [h \in Handlers |-> <<"", Nil>>]
    /\ e = ZeroEvent
    /\ ok = FALSE
    /\ err = Nil
    /\ rpc = "done"
    /\ cursor = 0
    /\ re = ZeroEvent
    /\ outError = <<>>
    /\ errClosed = TRUE
    /\ evtClosed = TRUE
    /\ wpc = "range"
    /\ we = ZeroEvent
    /\ nOps = 0
    /\ nFails = 0
    /\ sent = <<>>
    /\ delivered = <<>>
    /\ readErr = 0
    /\ overlap = FALSE
    /\ base = 0
    /\ prevM = EmptyMap
    /\ prevClean = FALSE

\* The handlers serve concurrent Put, Delete and Get requests while the
\* writer appends.
NextLive ==
    \/ \E h \in Handlers, k \in Keys, v \in Values : HandlePut(h, k, v, LiveOps)
    \/ \E h \in Handlers, k \in Keys : HandleDelete(h, k, LiveOps)
    \/ \E h \in Handlers, k \in Keys : HandleGet(h, k, LiveOps)
    \/ \E h \in Handlers : Lock(h)
    \/ \E h \in Handlers : Mutate(h)
    \/ \E h \in Handlers : WriteEvent(h)
    \/ \E h \in Handlers : RLock(h)
    \/ \E h \in Handlers : Read(h)
    \/ Take
    \/ Exec
    \/ SendErr

SpecLive == InitLive /\ [][NextLive]_vars

\* ---------------------------------------------- a burst of submissions
\* One client puts one key over and over while the writer appends.
NextBurst ==
    \/ HandlePut(1, "a", "1", BurstOps)
    \/ Lock(1)
    \/ Mutate(1)
    \/ WriteEvent(1)
    \/ Take
    \/ Exec
    \/ SendErr

SpecBurst == InitLive /\ [][NextBurst]_vars

\* ------------------------------------------- the replay stream on its own
\* A stored row of the table with sequence number s.
StoredRows(n) ==
    {[Sequence |-> s, EventType |-> t, Key |-> "a",
      Value |-> IF t = EventPut THEN "1" ELSE "", op |-> s, by |-> 1] :
        s \in 1..n, t \in {EventPut, EventDelete}}

\* The tables of n rows with the sequence numbers 1..n, in any stored order
\* (the order in which a table holds its rows is not the order of a column).
Tables(n) ==
    {t \in [1..n -> StoredRows(n)] :
        \A i, j \in 1..n : (i # j) => t[i].Sequence # t[j].Sequence}

\* A later lifetime, right after ReadEvents has started the reader goroutine.
InitStream ==
    /\ \E n \in 0..MaxRows :
         /\ table \in Tables(n)
         /\ dbSeq = n
         /\ base = n
    /\ life = 2
    /\ m = EmptyMap
    /\ lockW = NoOne
    /\ lockR = {}
    /\ running = FALSE
    /\ events = <<>>
    /\ errors = <<>>
    /\ pc = [p \in Procs |-> IF p = Main THEN "select" ELSE "idle"]
    /\ req = [p \in Procs |-> ZeroEvent]
    /\ got = [h \in Handlers |-> <<"", Nil>>]
    /\ e = ZeroEvent
    /\ ok = TRUE
    /\ err = Nil
    /\ rpc = "query"
    /\ cursor = 0
    /\ re = ZeroEvent
    /\ outError = <<>>
    /\ errClosed = FALSE
    /\ evtClosed = FALSE
    /\ wpc = "none"
    /\ we = ZeroEvent
    /\ nOps = 0
    /\ nFails = 0
    /\ sent = <<>>
    /\ delivered = <<>>
    /\ readErr = 0
    /\ overlap = FALSE
    /\ prevM = EmptyMap
    /\ prevClean = FALSE

\* The consumer only receives: case e, ok = <-events without the switch.
Drain == ReceiveEvent(FALSE)

NextStream ==
    \/ Query
    \/ RowsNext
    \/ RowsErr
    \/ CloseOutError
    \/ CloseOutEvent
    \/ SelectErrors
    \/ Drain

SpecStream == InitStream /\ [][NextStream]_vars

\* initializeTransactionLog has not returned (and main has not panicked).
Startup == pc[Main] \notin {"serving", "panic"}

\* Startup can go no further: no goroutine has a step left.
StartupStuck == Startup /\ ~ENABLED ProgNext

\* ================================================================ claims

\* C1: Round trip. When a lifetime ended with every request returned, the
\* queue drained, no failed append and its requests made one after another,
\* and the next startup reads the (non-empty) log without error, then startup
\* ends (it is about to return, or can take no further step) only by
\* returning nil with store.m equal to the map the previous lifetime ended
\* with, which is the map the log's events give when applied in order.
C1_RoundTrip ==
    (prevClean /\ table # <<>> /\ readErr = 0 /\ (pc[Main] = "return" \/ StartupStuck))
        => /\ pc[Main] = "return"
           /\ err = Nil
           /\ m = prevM
           /\ m = MapApplyAll(EmptyMap, Rows)

\* C2: The reader's error is never lost. Once the reader has put an error on
\* outError and the replay loop has made its last receive (ok is false), err
\* holds an error.
C2_ErrorNeverLost == (readErr > 0 /\ ~ok) => err # Nil

\* C3: Run() is called only when replay ended without an error: the write
\* pipeline is never active while err holds an error.
C3_RunOnlyWithoutError == running => err = Nil

\* C4: Nothing is submitted to the logger before Run(): while the pipeline has
\* not been started and replay is applying an event it received from the log
\* (ok is true), main is never inside WritePut/WriteDelete and nothing has
\* entered the queue.
C4_NoSubmitBeforeRun ==
    (~running /\ ok) => (pc[Main] # "send" /\ sent = <<>> /\ events = <<>>)

\* C5: Startup replay terminates. While the log is read without error and
\* every receive has delivered a persisted event (ok is true), some goroutine
\* always has a step to take until initializeTransactionLog has returned:
\* startup never comes to a halt.
C5_ReplayTerminates == (Startup /\ readErr = 0 /\ ok) => ENABLED ProgNext

\* C8: An append failure never halts the writer. Whenever the writer has a
\* failure to report, it can put it on the error channel and go on.
C8_WriterNeverHalts == (wpc = "sendErr") => ENABLED SendErr


\* The queued or persisted events without the sequence the table gave them.
Unsequenced(evs) == [i \in 1..Len(evs) |-> [evs[i] EXCEPT !.Sequence = 0]]

\* The event the writer holds between taking it and appending it.
InFlight == IF wpc = "exec" THEN <<we>> ELSE <<>>

\* C6: With no failed append, the records persisted in this lifetime followed by the event
\* being appended and the queued events are exactly the submitted events in
\* the order they entered the queue (so N records once the writer has
\* drained N submissions); the records' sequence numbers are pairwise
\* distinct; and two events of one caller are persisted in the order the
\* caller made them.
C6_PersistedInSubmissionOrder ==
    (running /\ nFails = 0) =>
        /\ Unsequenced(SubSeq(table, base + 1, Len(table))) \o InFlight \o events = sent
        /\ \A i, j \in 1..Len(table) :
               /\ (i # j) => table[i].Sequence # table[j].Sequence
               /\ (i < j /\ table[i].by = table[j].by) => table[i].op < table[j].op

\* C6 witness: two callers submitted concurrently, the one that began its
\* request later entered the queue first, and both events are persisted.
C6_Witness ==
    /\ running /\ nFails = 0 /\ Drained /\ overlap
    /\ Len(table) = 2 /\ Len(sent) = 2
    /\ table[1].by # table[2].by
    /\ table[1].op > table[2].op

C9_Backpressure ==
    /\ Len(events) <= QueueCap
    /\ \A h \in Handlers :
         (pc[h] = "send" /\ running) =>
             (ENABLED WriteEvent(h) <=> Len(events) < QueueCap)
    /\ (Len(events) = QueueCap /\ wpc = "range") => ENABLED Take

\* C9 witness: 16 events are queued, the writer is busy appending another,
\* and a caller is blocked in its send.
C9_Witness ==
    /\ Len(events) = QueueCap
    /\ wpc = "exec"
    /\ \E h \in Handlers : pc[h] = "send" /\ ~ENABLED WriteEvent(h)

\* The set of elements of a sequence.
Range(seq) == {seq[i] : i \in 1..Len(seq)}

\* C10: The events received from ReadEvents are persisted records in strictly
\* ascending sequence order (so none twice); while no read error has
\* occurred, a channel is closed only after every record was delivered; and
\* once the reader has ended without a read error, every persisted record
\* was delivered, both channels are closed, and no error was sent or received.
C10_FiniteOrderedStream ==
    /\ \A i, j \in 1..Len(delivered) :
           (i < j) => delivered[i].Sequence < delivered[j].Sequence
    /\ Range(delivered) \subseteq Range(table)
    /\ (readErr = 0 /\ (errClosed \/ evtClosed)) => Range(delivered) = Range(table)
    /\ (readErr = 0 /\ rpc = "done") =>
           /\ Len(delivered) = Len(table)
           /\ errClosed /\ evtClosed
           /\ outError = <<>> /\ err = Nil

\* C10 witness: three records stored out of sequence order were all delivered
\* and the reader has ended without an error.
C10_Witness ==
    /\ rpc = "done" /\ readErr = 0
    /\ Len(delivered) = 3
    /\ table[1].Sequence > table[2].Sequence

\* C11: A failed read stops the stream. The reader sends at most one error;
\* once it has sent one it is only closing its channels (or has ended, with
\* both closed), the records delivered are exactly the rows before the one
\* that failed, in order, and no further record is delivered and no further
\* error sent.
C11_ErrorStopsStream ==
    /\ [](/\ readErr <= 1
          /\ (readErr = 1) =>
                /\ rpc \in {"closeError", "closeEvent", "done"}
                /\ delivered = SubSeq(Rows, 1, cursor)
          /\ (rpc = "done") => (errClosed /\ evtClosed))
    /\ [][(readErr = 1) => (delivered' = delivered /\ readErr' = 1)]_vars

\* C11 witness: the scan of the second of three rows failed; one record was
\* delivered, the consumer holds the error, and the reader has ended.
C11_Witness ==
    /\ rpc = "done" /\ readErr = 1
    /\ err = "error reading row"
    /\ Len(table) = 3 /\ Len(delivered) = 1 /\ cursor = 1


\* C12: A failed append is never reported to the request path and never
\* rolls the store back: every finished Put or Delete has returned nil,
\* whatever became of its event, and the writer's steps (taking an event,
\* the INSERT, failed or not, reporting the error) leave store.m as it is.
C12_FailureNeverRollsBack ==
    /\ [](\A h \in Handlers :
              (pc[h] = "idle" /\ req[h].op > 0) => got[h] = <<"", Nil>>)
    /\ [][(wpc' # wpc \/ nFails' # nFails) => m' = m]_vars

\* A Put's append failed and was reported, its row is missing, and the
\* store still holds what the Put wrote.
C12_Witness ==
    /\ nFails = 1 /\ Drained /\ errors # <<>>
    /\ table = <<>> /\ Len(sent) = 1
    /\ m = MapPut(EmptyMap, "a", "1")
    /\ \E h \in Handlers : pc[h] = "idle" /\ req[h].op > 0 /\ got[h] = <<"", Nil>>


\* C13: Mutual exclusion on the store map. While one Put or Delete is
\* inside its map mutation, no other Put or Delete is inside its own and no
\* Get is reading the map; the goroutine mutating is the one holding the
\* write lock and the goroutines reading are the ones holding the read lock.
\* Readers do not exclude each other: a Get waiting for the read lock can
\* take it whenever no writer holds the lock, however many Gets are reading.
C13_MutualExclusion ==
    /\ \A p, q \in Procs : (pc[p] = "mutate" /\ pc[q] = "mutate") => p = q
    /\ \A p \in Procs : (pc[p] = "mutate") =>
            /\ lockW = p
            /\ \A h \in Handlers : pc[h] # "read"
    /\ lockR = {h \in Handlers : pc[h] = "read"}
    /\ \A h \in Handlers :
            (pc[h] = "RLock" /\ lockW = NoOne) => ENABLED RLock(h)

\* A Put is inside its mutation while a Get and nothing else waits for it.
C13_Witness ==
    /\ pc[1] = "mutate" /\ lockW = 1
    /\ pc[2] = "RLock" /\ ~ENABLED RLock(2)


\* C14: Get(k) returns ("", ErrorNoSuchKey) exactly when k is not in the
\* store and otherwise the stored value with a nil error. The stored value
\* is that of the most recent Put(k, v): store.m changes only in the
\* mutation of a Put or Delete; a Put of (k, v) makes k hold v and touches
\* no other key; a Delete of k removes k and touches no other key, so a
\* Delete of an absent key leaves the map as it was; and Delete returns nil.
C14_GetSeesLatestPut ==
    /\ [][\A h \in Handlers : (pc[h] = "read" /\ pc'[h] = "idle") =>
              /\ (req[h].Key \notin DOMAIN m) <=> (got'[h][2] = "no such key")
              /\ (req[h].Key \notin DOMAIN m) => got'[h][1] = ""
              /\ (req[h].Key \in DOMAIN m) => got'[h] = <<m[req[h].Key], Nil>>]_vars
    /\ [][(m' # m) => \E p \in Procs : pc[p] = "mutate" /\ pc'[p] = "send"]_vars
    /\ [][\A p \in Procs : (pc[p] = "mutate" /\ pc'[p] = "send") =>
              /\ \A k \in (DOMAIN m \cup DOMAIN m') \ {req[p].Key} :
                     k \in DOMAIN m /\ k \in DOMAIN m' /\ m'[k] = m[k]
              /\ (req[p].EventType = EventPut) =>
                     (req[p].Key \in DOMAIN m' /\ m'[req[p].Key] = req[p].Value)
              /\ (req[p].EventType = EventDelete) =>
                     /\ req[p].Key \notin DOMAIN m'
                     /\ (req[p].Key \notin DOMAIN m) => m' = m]_vars
    /\ [](\A h \in Handlers :
              (pc[h] = "idle" /\ req[h].op > 0) => got[h][2] = Nil)

\* One client's Put of ("a", "1") has returned and another client's Get of
\* "a" has returned that value.
C14_Witness ==
    /\ pc[1] = "idle" /\ req[1] = PutEvent("a", "1", 1, 1)
    /\ pc[2] = "idle" /\ req[2].op = 0 /\ req[2].Key = "a" /\ nOps = 2
    /\ got[2] = <<"1", Nil>>
    /\ m = MapPut(EmptyMap, "a", "1")


\* C15: One writer per lifetime. Within a lifetime Run() is called once and
\* only after the replay loop has ended: the call finds no channels made and
\* no writer started, and from then on the logger stays running, main is
\* past replay and never takes a replay step again; until the call there is
\* no writer, and once initializeTransactionLog has got past the call there
\* is one. The writer handles one event at a time: it takes the next event
\* from the queue only when it is not in an append.
C15_OneWriter ==
    /\ [](running => pc[Main] \in {"return", "serving", "panic"})
    /\ [](pc[Main] \in {"return", "serving"} => running)
    /\ [](running <=> wpc # "none")
    /\ [][(pc[Main] = "Run" /\ pc'[Main] # "Run" /\ life' = life) =>
              /\ ~running /\ wpc = "none"
              /\ ~(ok /\ err = Nil)
              /\ running' /\ wpc' = "range"]_vars
    /\ [][(running /\ life' = life) =>
              /\ running'
              /\ pc'[Main] \in {"return", "serving", "panic"}
              /\ <<e, ok, err>>' = <<e, ok, err>>]_vars
    /\ [][(pc[Main] = "serving" /\ life' = life) => pc'[Main] = "serving"]_vars
    /\ [][(events' # events /\ Len(events') < Len(events) /\ life' = life) =>
              (wpc = "range" /\ wpc' = "exec" /\ we' = Head(events))]_vars

\* Main serves, the writer started by the one call of Run() is in an append
\* and a later event waits in the queue.
C15_Witness ==
    /\ pc[Main] = "serving" /\ running
    /\ wpc = "exec" /\ Len(events) = 1
    /\ we.op < events[1].op


\* C16: Log and live store agree under concurrency. On a running logger
\* with no failed append, once every Put and Delete has returned and the
\* writer has drained the queue, replaying the persisted rows in sequence
\* order into an empty store gives the live store.m.
C16_LogAgreesWithStore ==
    (running /\ nFails = 0 /\ Drained) => MapApplyAll(EmptyMap, Rows) = m


C18_AppliesOnlyLoggedEvents ==
    (Startup /\ ~ok /\ e = ZeroEvent) =>
        /\ pc[Main] \notin {"Lock", "mutate", "send"}
        /\ sent = <<>>
        /\ DOMAIN m \subseteq {delivered[i].Key : i \in 1..Len(delivered)}

====
